---- MODULE Spec2Model ----
(***************************************************************************)
(* A model of the remote query layer of rajkaramchedu/bittensor:           *)
(*                                                                         *)
(*   - Dendrite.forward (src/opentensor/dendrite.py): one dispatch round,  *)
(*     a sequential loop pairing item x[idx] with nodes[idx] and issuing   *)
(*     one blocking stub.Fwd call per pair.  Specification Spec.           *)
(*   - BertSynapseBase.forward / base_remote_forward                       *)
(*     (src/bittensor/synapses/bert.py), which hands the batch to          *)
(*     PKMDendrite.forward_text and copies what comes back into the        *)
(*     SynapseOutput.  Specification SpecBert.                             *)
(*                                                                         *)
(* Python lists are 0-based; sequences here are 1-based, so the code's     *)
(* x[idx] is x[idx + 1] below.  idx keeps the code's 0-based value.        *)
(***************************************************************************)
EXTENDS Integers, Sequences, FiniteSets, TLC

\* ------------------------------------------------------------------ bounds
MaxItems == 2       \* longest input list x of a round
MaxNodes == 2       \* longest node list of a round
MaxRounds == 2      \* dispatch rounds one Dendrite object runs
MaxPeers == 3       \* largest peer snapshot (metagraph.state.n) of a round
MaxTopK == 2        \* largest configured top-k of the router
FeatureDim == 2     \* entries of one feature array

\* ------------------------------------------------------------ environment
\* opentensor_pb2.Node records: identity, address, port (read at lines 23-24).
Nodes ==
    { [identity |-> "A", address |-> "10.0.0.1", port |-> "8091"],
      [identity |-> "B", address |-> "10.0.0.2", port |-> "8092"] }

\* The torch tensors a caller may put in x.
Tensors == {"t1", "t2"}

\* What the peer at the other end of one stub.Fwd call does:
\*   ok         a response whose tensors[0] deserializes
\*   refused    the channel fails (connection refused, protocol mismatch):
\*              stub.Fwd raises grpc.RpcError
\*   empty      a response with no tensors: response.tensors[0] raises IndexError
\*   malformed  a response whose tensors[0] holds bytes that do not deserialize
\*   silent     the peer accepts the call and never answers
Fates == {"ok", "refused", "empty", "malformed", "silent"}

NoRequest == [kind |-> "none"]

VARIABLES
    round,       \* number of forward() calls started on this Dendrite
    pc,          \* "idle" | "loop" | "waiting" | "returned" | "raised"
    x,           \* argument x of the running forward()
    nodes,       \* argument nodes of the running forward()
    fate,        \* fate[i]: what the peer did or does with the i-th call issued
    urandom,     \* number of os.urandom draws made so far
    source_uid,  \* local of forward(), line 14
    nounce,      \* local of forward(), line 15
    idx,         \* loop index of line 19 (0-based)
    results,     \* local results of forward(), line 18
    sent,        \* the requests handed to stub.Fwd in this round, in order
    inflight,    \* the request stub.Fwd is blocked on, or NoRequest
    raisedAt,    \* where the exception that left forward() was raised
    metagraph    \* self._metagraph (line 9)

dvars == <<round, pc, x, nodes, fate, urandom, source_uid, nounce, idx,
           results, sent, inflight, raisedAt, metagraph>>

\* The synapse (src/bittensor/synapses/bert.py).
VARIABLES
    bpc,         \* "idle" | "remote" (forward() is at line 143) | "head" (the
                 \* subclass's forward() is past its call of the base) |
                 \* "done" | "raised"
    klass,       \* the class of the synapse: "base" | "nsp" | "mlm"
    entry,       \* the method the caller entered: "forward" | "forward_text"
    targets,     \* argument targets of the running forward(): TRUE when given
    calls,       \* invocations of self.dendrite.forward_text in this forward()
    topK,        \* the router's configured top-k
    inputs,      \* argument inputs of the running forward(): one entry per item
    remote,      \* argument remote of the running forward()
    output,      \* the SynapseOutput being filled
    snapshot,    \* metagraph.state.n as read by the dendrite in this round
    selections,  \* selections[i]: the router's (peer, weight) list for item i
    outcomes     \* outcomes[i][k]: the outcome of the call for selections[i][k]

bvars == <<bpc, klass, entry, targets, calls, topK, inputs, remote, output,
           snapshot, selections, outcomes>>

vars == <<dvars, bvars>>

\* --------------------------------------------------------------- the codec
\* opentensor.Serializer.serialize wraps a tensor into a wire tensor;
\* deserialize unwraps one, and raises on bytes that are no wire tensor.
Garbage == [wire |-> "garbage"]

serialize(t) == [wire |-> "tensor", of |-> t]

WellFormed(w) == w.wire = "tensor"

deserialize(w) == w.of

\* os.urandom(12): the k-th draw of the process is modelled by its ordinal, so
\* two values are equal exactly when they come from the same draw.
Draw(k) == k

\* version = 1.0 (line 13)
version == 1

\* ------------------------------------------------------------- the request
\* The node's address put where its identity belongs.
Request_address_as_target(i, node, tensor, nce) ==
    [ kind       |-> "Fwd",
      idx        |-> i,
      address    |-> <<node.address, node.port>>,
      version    |-> version,
      public_key |-> metagraph.public_key,
      target_id  |-> node.address,
      nounce     |-> nce,
      tensors    |-> << serialize(tensor) >> ]

\* Lines 23-35: the stub's address and the TensorMessage built for one pair.
Request(i, node, tensor, nce) ==
    [ kind      |-> "Fwd",
      idx       |-> i,
      address   |-> <<node.address, node.port>>,
      version   |-> version,
      public_key |-> metagraph.public_key,
      target_id |-> node.identity,
      nounce    |-> nce,
      tensors   |-> << serialize(tensor) >> ]

\* The feature array a peer computes: it depends on who was asked, under which
\* identity, and on the tensor that was carried.
Feature(req) ==
    [ from |-> req.address, as |-> req.target_id,
      of |-> deserialize(req.tensors[1]) ]

\* The response stub.Fwd hands back for a request, by the peer's fate.
Respond(req, f) ==
    CASE f = "ok"        -> [tensors |-> << serialize(Feature(req)) >>]
      [] f = "empty"     -> [tensors |-> << >>]
      [] f = "malformed" -> [tensors |-> << Garbage >>]

\* ------------------------------------------------------------------ raise
\* A dispatcher that swallows the fault and goes round the loop again with the
\* same idx, re-issuing the call.
RetryAfterFault(where) ==
    /\ pc' = "loop"
    /\ raisedAt' = where
    /\ results' = results
    /\ inflight' = NoRequest
    /\ UNCHANGED idx

\* An exception leaves forward(): nothing in the body catches it, so the frame
\* and its local results are gone and the caller gets no return value.
Raise(where) ==
    /\ pc' = "raised"
    /\ raisedAt' = where
    /\ results' = << >>
    /\ inflight' = NoRequest
    /\ UNCHANGED idx

\* ------------------------------------------------------------------- Init
DInit ==
    /\ round = 0
    /\ pc = "idle"
    /\ x = << >>
    /\ nodes = << >>
    /\ fate = << >>
    /\ urandom = 0
    /\ source_uid = 0
    /\ nounce = 0
    /\ idx = 0
    /\ results = << >>
    /\ sent = << >>
    /\ inflight = NoRequest
    /\ raisedAt = "nowhere"
    /\ metagraph = [public_key |-> "pk"]

SeqsUpTo(S, n) == UNION { [1..k -> S] : k \in 0..n }

\* forward(x, nodes) is entered: lines 13-18.  self._keys and keys (line 16)
\* are bound nowhere in the file; whether they resolve is up to the
\* environment the object is used in (keysBound).  node_ids is never read.
Begin ==
    /\ pc \in {"idle", "returned", "raised"}
    /\ UNCHANGED bvars
    /\ UNCHANGED metagraph
    /\ round < MaxRounds
    /\ \E xs \in SeqsUpTo(Tensors, MaxItems), ns \in SeqsUpTo(Nodes, MaxNodes),
          keysBound \in BOOLEAN :
            /\ x' = xs
            /\ nodes' = ns
            /\ fate' = << >>
            /\ source_uid' = Draw(urandom + 1)
            /\ nounce' = Draw(urandom + 2)
            /\ urandom' = urandom + 2
            /\ round' = round + 1
            /\ sent' = << >>
            /\ idx' = 0
            /\ inflight' = NoRequest
            /\ results' = << >>
            /\ IF keysBound
               THEN pc' = "loop" /\ raisedAt' = "nowhere"
               ELSE pc' = "raised" /\ raisedAt' = "line16"

\* One pass of the loop head and body up to the call: lines 19-36.  The peer
\* that receives the call settles what it does with it (f).
Iterate ==
    /\ pc = "loop"
    /\ idx < Len(x)
    /\ UNCHANGED <<round, x, nodes, urandom, source_uid, nounce, metagraph>>
    /\ UNCHANGED bvars
    /\ IF idx >= Len(nodes)
       THEN \* nodes[idx]: IndexError (line 20)
            /\ Raise("line20")
            /\ UNCHANGED <<sent, fate>>
       ELSE LET req == Request(idx, nodes[idx + 1], x[idx + 1], nounce) IN
            /\ \E f \in Fates : fate' = Append(fate, f)
            /\ sent' = Append(sent, req)
            /\ inflight' = req
            /\ pc' = "waiting"
            /\ UNCHANGED <<idx, results, raisedAt>>

\* stub.Fwd comes back (line 36) and the response is unpacked (lines 37-38).
\* The call carries no timeout: a silent peer leaves forward() blocked.
Receive ==
    /\ pc = "waiting"
    /\ fate[idx + 1] # "silent"
    /\ UNCHANGED <<round, x, nodes, fate, urandom, source_uid, nounce, sent,
                   metagraph>>
    /\ UNCHANGED bvars
    /\ IF fate[idx + 1] = "refused"
       THEN Raise("line36")
       ELSE LET response == Respond(inflight, fate[idx + 1]) IN
            IF Len(response.tensors) = 0
            THEN Raise("line37")
            ELSE IF ~WellFormed(response.tensors[1])
            THEN Raise("line37")
            ELSE /\ results' = Append(results, deserialize(response.tensors[1]))
                 /\ idx' = idx + 1
                 /\ inflight' = NoRequest
                 /\ pc' = "loop"
                 /\ UNCHANGED raisedAt

\* The loop is exhausted: return results (line 40).
Return ==
    /\ pc = "loop"
    /\ idx = Len(x)
    /\ pc' = "returned"
    /\ UNCHANGED <<round, x, nodes, fate, urandom, source_uid, nounce, idx,
                   results, sent, inflight, raisedAt, metagraph>>
    /\ UNCHANGED bvars

\* =================================================== the synapse (bert.py)
\* The batches a caller may pass as inputs: one token sequence id per item.
Batches == { <<1>>, <<1, 2>> }

\* The weights the router's normalisation may hand out.
Weights == {1, 2}

NO_CALL == -1
FAILED == 0
SUCCESS == 1

Zero == [d \in 1..FeatureDim |-> 0]

\* encoder_transformer / context_transformer (lines 129-135), per item.
encoding_hidden(inp) == [i \in 1..Len(inp) |-> <<"enc", inp[i]>>]

local_context(inp) ==
    [i \in 1..Len(inp) |-> [d \in 1..FeatureDim |-> 100 + inp[i]]]

\* self.hidden_layer(torch.cat([a, b], dim=2)), per item (lines 139-140, 210-211).
hidden_layer(a, b) ==
    [i \in 1..Len(a) |-> [encoding |-> a[i], context |-> b[i]]]

\* F.mse_loss(a, b) (line 204)
mse_loss(a, b) == [mse |-> <<a, b>>]

\* SynapseOutput(loss = torch.tensor(0.0)) (line 125): loss is kept as the list
\* of the terms added to 0.0; has holds the names of the fields set so far,
\* and a field that is not set holds << >>.
SynapseOutput ==
    [ has |-> {"loss"}, loss |-> << >>, local_hidden |-> << >>,
      remote_hidden |-> << >>, distillation_loss |-> << >>, weights |-> << >>,
      request_sizes |-> << >>, return_codes |-> << >>,
      local_target |-> << >>, local_target_loss |-> << >>,
      remote_target |-> << >>, remote_target_loss |-> << >> ]

\* output.<f> = v
Assign(out, f, v) == [out EXCEPT ![f] = v, !.has = @ \cup {f}]

\* ------------------------------------------------ PKMDendrite.forward_text
\* The feature array peer p returns for item i.
Payload(i, p) == [d \in 1..FeatureDim |-> p + d * i]

Min(a, b) == IF a < b THEN a ELSE b

\* Router: the selected peers S with their weights w, ordered by weight
\* descending, ties by peer identity.
RECURSIVE Ordered(_, _)
Ordered(S, w) ==
    IF S = {} THEN << >>
    ELSE LET best == CHOOSE p \in S :
                        \A q \in S : w[p] > w[q] \/ (w[p] = w[q] /\ p <= q)
         IN << [peer |-> best, weight |-> w[best]] >>
                \o Ordered(S \ {best}, w)

\* Router: every selection list one item may get from n peers: topK of them
\* (clamped to n), each with a weight.
SelectionLists(n, k) ==
    { Ordered(S, w) :
        S \in { T \in SUBSET (1..n) : Cardinality(T) = Min(k, n) },
        w \in [1..n -> Weights] }

\* Dispatcher: every outcome list the calls of one selection list may have.
OutcomeLists(sel) == [1..Len(sel) -> {FAILED, SUCCESS}]

Scale(w, v) == [d \in 1..FeatureDim |-> w * v[d]]

Add(u, v) == [d \in 1..FeatureDim |-> u[d] + v[d]]

\* Aggregator: the weighted sum of the SUCCESS payloads of one item, the
\* weights applied as given; the zero array when there is none.
RECURSIVE Combine(_, _, _)
Combine(i, sel, out) ==
    IF sel = << >> THEN Zero
    ELSE LET rest == Combine(i, Tail(sel), Tail(out)) IN
         IF Head(out) = SUCCESS
         THEN Add(Scale(Head(sel).weight, Payload(i, Head(sel).peer)), rest)
         ELSE rest

\* Aggregator: the diagnostic vectors, one entry per peer of the snapshot.
WeightVector(n, sel, out) ==
    [p \in 1..n |->
        IF \E k \in 1..Len(sel) : sel[k].peer = p /\ out[k] = SUCCESS
        THEN (CHOOSE e \in {sel[k] : k \in 1..Len(sel)} : e.peer = p).weight
        ELSE 0]

SizeVector(n, sels) ==
    [p \in 1..n |->
        Cardinality({ i \in 1..Len(sels) :
                        \E k \in 1..Len(sels[i]) : sels[i][k].peer = p })]

CodeVector(n, sel, out) ==
    [p \in 1..n |->
        IF \E k \in 1..Len(sel) : sel[k].peer = p
        THEN out[CHOOSE k \in 1..Len(sel) : sel[k].peer = p]
        ELSE NO_CALL]

\* What forward_text returns (line 196) for a round over n peers.
forward_text(n, sels, outs) ==
    [ remote_context |-> [i \in 1..Len(sels) |-> Combine(i, sels[i], outs[i])],
      weights        |-> [i \in 1..Len(sels) |-> WeightVector(n, sels[i], outs[i])],
      sizes          |-> SizeVector(n, sels),
      return_codes   |-> [i \in 1..Len(sels) |-> CodeVector(n, sels[i], outs[i])] ]

\* ------------------------------------------------------------ the mutants
\* The assignment of line 198 left out: request_sizes is never set.
base_remote_forward_sizes_dropped(out, inp, ret) ==
    LET o1 == Assign(out, "weights", ret.weights)
        o2 == o1
        o3 == Assign(o2, "return_codes", ret.return_codes)
        distillation_loss == mse_loss(local_context(inp), ret.remote_context)
        o4 == Assign(o3, "distillation_loss", distillation_loss)
        o5 == Assign(o4, "loss", Append(o4.loss, distillation_loss))
        remote_hidden == hidden_layer(encoding_hidden(inp), ret.remote_context)
    IN Assign(o5, "remote_hidden", remote_hidden)

\* The return codes stored as the weights.
base_remote_forward_codes_as_weights(out, inp, ret) ==
    LET o1 == Assign(out, "weights", ret.return_codes)
        o2 == Assign(o1, "request_sizes", ret.sizes)
        o3 == Assign(o2, "return_codes", ret.return_codes)
        distillation_loss == mse_loss(local_context(inp), ret.remote_context)
        o4 == Assign(o3, "distillation_loss", distillation_loss)
        o5 == Assign(o4, "loss", Append(o4.loss, distillation_loss))
        remote_hidden == hidden_layer(encoding_hidden(inp), ret.remote_context)
    IN Assign(o5, "remote_hidden", remote_hidden)

\* remote_hidden built from the local context instead of the remote one.
base_remote_forward_local_context(out, inp, ret) ==
    LET o1 == Assign(out, "weights", ret.weights)
        o2 == Assign(o1, "request_sizes", ret.sizes)
        o3 == Assign(o2, "return_codes", ret.return_codes)
        distillation_loss == mse_loss(local_context(inp), ret.remote_context)
        o4 == Assign(o3, "distillation_loss", distillation_loss)
        o5 == Assign(o4, "loss", Append(o4.loss, distillation_loss))
        remote_hidden == hidden_layer(encoding_hidden(inp), local_context(inp))
    IN Assign(o5, "remote_hidden", remote_hidden)

\* The weights stored as the return codes.
base_remote_forward_weights_as_codes(out, inp, ret) ==
    LET o1 == Assign(out, "weights", ret.weights)
        o2 == Assign(o1, "request_sizes", ret.sizes)
        o3 == Assign(o2, "return_codes", ret.weights)
        distillation_loss == mse_loss(local_context(inp), ret.remote_context)
        o4 == Assign(o3, "distillation_loss", distillation_loss)
        o5 == Assign(o4, "loss", Append(o4.loss, distillation_loss))
        remote_hidden == hidden_layer(encoding_hidden(inp), ret.remote_context)
    IN Assign(o5, "remote_hidden", remote_hidden)

\* ---------------------------------------------------- base_remote_forward
\* Lines 196-214, given what forward_text returned (ret).
base_remote_forward(out, inp, ret) ==
    LET o1 == Assign(out, "weights", ret.weights)
        o2 == Assign(o1, "request_sizes", ret.sizes)
        o3 == Assign(o2, "return_codes", ret.return_codes)
        distillation_loss == mse_loss(local_context(inp), ret.remote_context)
        o4 == Assign(o3, "distillation_loss", distillation_loss)
        o5 == Assign(o4, "loss", Append(o4.loss, distillation_loss))
        remote_hidden == hidden_layer(encoding_hidden(inp), ret.remote_context)
    IN Assign(o5, "remote_hidden", remote_hidden)

\* ------------------------------------------------------- the target heads
\* BertSynapseBase, BertNSPSynapse, BertMLMSynapse.
Classes == {"base", "nsp", "mlm"}

\* self.target_layer: BertOnlyNSPHead (line 298) or BertLMPredictionHead
\* (line 437), followed by F.softmax.
target_layer(k, h) == [head |-> k, of |-> h]

\* self.loss_fct(pred.view(...), targets) (lines 394, 403, 523, 531).
loss_fct(pred) == [ce |-> pred]

\* if remote: (line 143) with the test always taken.
AlwaysRemote(rem) == TRUE

\* if remote: (line 143)
NeedsRemote(rem) == rem

\* BertSynapseBase.remote_forward (lines 261-268).
remote_forward(k, out, tg) ==
    IF tg
    THEN Assign(out, "remote_target", target_layer(k, out.remote_hidden))
    ELSE out

\* if targets is not None: ... (lines 385-396, 514-525)
local_targets(k, out, tg) ==
    IF tg
    THEN LET local_target == target_layer(k, out.local_hidden)
             o1 == Assign(out, "local_target", local_target)
             o2 == Assign(o1, "local_target_loss", loss_fct(local_target))
         IN Assign(o2, "loss", Append(o2.loss, loss_fct(local_target)))
    ELSE out

\* if remote: ... (lines 399-405, 527-533), after remote_forward returned
\* out: targets.shape / targets.view is evaluated on targets whatever it is,
\* and raises AttributeError on None.
remote_targets(out, tg) ==
    IF tg
    THEN LET remote_target_loss == loss_fct(out.remote_target)
             o1 == Assign(out, "remote_target_loss", remote_target_loss)
         IN [raised |-> FALSE,
             output |-> Assign(o1, "loss", Append(o1.loss, remote_target_loss))]
    ELSE [raised |-> TRUE, output |-> out]

\* The part of a subclass's forward() after its call of the base
\* (lines 385-406 and 514-535).
target_head(k, out, tg, rem) ==
    LET o1 == local_targets(k, out, tg) IN
    IF rem
    THEN remote_targets(remote_forward(k, o1, tg), tg)
    ELSE [raised |-> FALSE, output |-> o1]

\* Where forward() stands once BertSynapseBase.forward has returned.
AfterBase == IF klass = "base" THEN "done" ELSE "head"

\* ------------------------------------------------------------ Init (bert)
\* The synapse before any forward(), with no router configured.
BIdle ==
    /\ bpc = "idle"
    /\ klass = "base"
    /\ entry = "none"
    /\ targets = FALSE
    /\ calls = 0
    /\ topK = 0
    /\ inputs = << >>
    /\ remote = FALSE
    /\ output = SynapseOutput
    /\ snapshot = 0
    /\ selections = << >>
    /\ outcomes = << >>

\* The synapse after construction: top-k comes from the configuration.
BInit ==
    /\ bpc = "idle"
    /\ klass \in Classes
    /\ entry = "none"
    /\ targets = FALSE
    /\ calls = 0
    /\ topK \in 0..MaxTopK
    /\ inputs = << >>
    /\ remote = FALSE
    /\ output = SynapseOutput
    /\ snapshot = 0
    /\ selections = << >>
    /\ outcomes = << >>

\* forward() or forward_text() is entered.  forward_text (lines 82, 315, 454)
\* calls forward with remote = False and no targets; BertSynapseBase.forward
\* has no targets.  BertSynapseBase.forward runs its local part
\* (lines 123-141); without remote it returns the output (line 146).
CallForward ==
    /\ bpc \in {"idle", "done", "raised"}
    /\ UNCHANGED dvars
    /\ UNCHANGED <<topK, klass>>
    /\ \E inp \in Batches, rem \in BOOLEAN, tg \in BOOLEAN,
          ent \in {"forward", "forward_text"} :
        /\ ent = "forward_text" => (~rem /\ ~tg)
        /\ klass = "base" => ~tg
        /\ entry' = ent
        /\ inputs' = inp
        /\ remote' = rem
        /\ targets' = tg
        /\ calls' = 0
        /\ output' = Assign(SynapseOutput, "local_hidden",
                             hidden_layer(encoding_hidden(inp), local_context(inp)))
        /\ snapshot' = 0
        /\ selections' = << >>
        /\ outcomes' = << >>
        /\ bpc' = IF NeedsRemote(rem) THEN "remote" ELSE AfterBase

\* remote is set: base_remote_forward runs (lines 143-144, 196-214) and the
\* output is returned (line 146).  The dendrite's round reads the peer
\* snapshot (n), routes every item, dispatches and aggregates.
BaseRemoteForward ==
    /\ bpc = "remote"
    /\ UNCHANGED dvars
    /\ UNCHANGED <<topK, klass, entry, targets, inputs, remote>>
    /\ calls' = calls + 1
    /\ \E n \in 0..MaxPeers :
        \E sels \in [1..Len(inputs) -> SelectionLists(n, topK)] :
          \E outs \in { o \in [1..Len(inputs) -> UNION { OutcomeLists(sels[i]) :
                                                     i \in 1..Len(inputs) }] :
                          \A i \in 1..Len(inputs) : o[i] \in OutcomeLists(sels[i]) } :
            /\ snapshot' = n
            /\ selections' = sels
            /\ outcomes' = outs
            /\ output' = base_remote_forward(output, inputs,
                                             forward_text(n, sels, outs))
            /\ bpc' = AfterBase

\* BertNSPSynapse.forward after line 383: lines 385-406.
NSPForward ==
    /\ bpc = "head"
    /\ klass = "nsp"
    /\ UNCHANGED dvars
    /\ UNCHANGED <<topK, klass, entry, targets, calls, inputs, remote, snapshot,
                   selections, outcomes>>
    /\ LET r == target_head(klass, output, targets, remote) IN
        /\ output' = r.output
        /\ bpc' = IF r.raised THEN "raised" ELSE "done"

\* BertMLMSynapse.forward after line 512: lines 514-535.
MLMForward ==
    /\ bpc = "head"
    /\ klass = "mlm"
    /\ UNCHANGED dvars
    /\ UNCHANGED <<topK, klass, entry, targets, calls, inputs, remote, snapshot,
                   selections, outcomes>>
    /\ LET r == target_head(klass, output, targets, remote) IN
        /\ output' = r.output
        /\ bpc' = IF r.raised THEN "raised" ELSE "done"

\* ---------------------------------------------------------- specifications
\* Dendrite.forward alone: the synapse stays idle.
Init == DInit /\ BIdle

Next == Begin \/ Iterate \/ Receive \/ Return

Spec == Init /\ [][Next]_vars

\* The synapse alone: no Dendrite.forward round is run.
InitBert == DInit /\ BInit

NextBert == CallForward \/ BaseRemoteForward \/ NSPForward \/ MLMForward

SpecBert == InitBert /\ [][NextBert]_vars

\* ----------------------------------------------------------------- claims
RoundOver == pc \in {"returned", "raised"}

\* The i-th call of the round was answered and gave no usable response.
CallFailed(i) ==
    /\ i \in 1..Len(fate)
    /\ fate[i] \in {"refused", "empty", "malformed"}
    /\ ~(pc = "waiting" /\ i = Len(fate))

\* The caller of forward() holds the payload of the j-th pair.
Delivered(j) ==
    /\ pc = "returned"
    /\ j \in 1..Len(results)
    /\ j \in 1..Len(sent)
    /\ results[j] = Feature(sent[j])

\* C1: fault isolation.  When the round is over and the call of pair i failed,
\* every other pair j that has a node was still called, and every pair whose
\* peer answered well has its payload with the caller.
C1_FaultIsolation ==
    \A i \in 1..Len(fate) :
        (RoundOver /\ CallFailed(i)) =>
            \A j \in (1..Len(x)) \ {i} :
                j <= Len(nodes) =>
                    /\ j <= Len(sent)
                    /\ (fate[j] = "ok" => Delivered(j))

\* C2: a failed call (transport error, empty or malformed response) never makes
\* forward() raise: the round returns normally.
C2_FaultsAbsorbed ==
    \A i \in 1..Len(fate) : CallFailed(i) => pc # "raised"

\* C3: exact attribution.  At the end of a round in which some call failed,
\* every pair that was called has exactly one outcome with the caller, and the
\* payload of each answered pair is the one its own request produced.
C3_ExactAttribution ==
    (RoundOver /\ \E i \in 1..Len(fate) : CallFailed(i)) =>
        /\ pc = "returned"
        /\ Len(results) = Len(sent)
        /\ \A j \in 1..Len(sent) : fate[j] = "ok" => Delivered(j)

\* C4: nonce freshness.  Any two requests sent in a round carry nonces that
\* come from different os.urandom draws.
C4_NonceFreshPerCall ==
    \A i, j \in 1..Len(sent) : i # j => sent[i].nounce # sent[j].nounce

\* C5: a running round is never blocked: while forward() is in its loop or
\* waits on a call, some step of it can be taken (the reply, or a timeout).
C5_RoundNeverBlocked ==
    pc \in {"loop", "waiting"} => ENABLED (Iterate \/ Receive \/ Return)

C7_EmptyPeersNoError ==
    (Len(nodes) = 0 /\ Len(x) > 0 /\ round > 0 /\ raisedAt # "line16") =>
        /\ pc # "raised"
        /\ sent = << >>
        /\ (pc = "returned" => results = << >>)

\* --------------------------------------------------- claims on the synapse
\* A remote forward pass has returned.
RoundDone == bpc = "done" /\ remote

Selected(i, p) ==
    \E k \in 1..Len(selections[i]) : selections[i][k].peer = p

Succeeded(i, p) ==
    \E k \in 1..Len(selections[i]) :
        selections[i][k].peer = p /\ outcomes[i][k] = SUCCESS

\* The weight the router gave peer p for item i.
GivenWeight(i, p) ==
    LET k == CHOOSE k \in 1..Len(selections[i]) : selections[i][k].peer = p
    IN selections[i][k].weight

\* The aggregate of item i as output.remote_hidden carries it.
Aggregate(i) == output.remote_hidden[i].context

\* The sum over a set of peers P of (given weight x payload) for item i.
RECURSIVE WeightedSum(_, _)
WeightedSum(i, P) ==
    IF P = {} THEN [d \in 1..FeatureDim |-> 0]
    ELSE LET p == CHOOSE q \in P : TRUE
             rest == WeightedSum(i, P \ {p})
         IN [d \in 1..FeatureDim |->
                GivenWeight(i, p) * Payload(i, p)[d] + rest[d]]

FailedAt(i, p) ==
    \E k \in 1..Len(selections[i]) :
        selections[i][k].peer = p /\ outcomes[i][k] = FAILED

C12_CallsIndependent ==
    (pc = "waiting" /\ idx + 1 < Len(x) /\ idx + 1 < Len(nodes)) =>
        ENABLED Iterate

\* C13: peer data is read-only.  No step of forward() changes the metagraph,
\* and no step after the entry changes the node list or a node record; every
\* request of the round goes to the address, and carries the identity, its
\* node had when the round started, whether the round goes on, returns or
\* raises.
C13_PeersReadOnly ==
    [][ /\ metagraph' = metagraph
        /\ round' = round =>
             /\ nodes' = nodes
             /\ \A k \in 1..Len(sent') :
                  /\ sent'[k].address = <<nodes[k].address, nodes[k].port>>
                  /\ sent'[k].target_id = nodes[k].identity ]_vars

\* C13 witness: a round over two different nodes has raised on the second
\* response, and both requests went to their node as given.
C13_Witness ==
    /\ pc = "raised"
    /\ raisedAt = "line37"
    /\ Len(sent) = 2
    /\ nodes[1] # nodes[2]
    /\ sent[1].target_id = nodes[1].identity
    /\ sent[2].target_id = nodes[2].identity
    /\ sent[2].address = <<nodes[2].address, nodes[2].port>>

\* The fields only a pass that queried the network sets.
RemoteFields ==
    {"weights", "request_sizes", "return_codes", "remote_hidden",
     "distillation_loss"}

\* C14: the network is queried only when remote = True.  forward_text always
\* runs with remote = False; a pass with remote = False never invokes the
\* dendrite and sets none of weights, request_sizes, return_codes,
\* remote_hidden, distillation_loss; no pass invokes the dendrite twice; a
\* returned pass of BertSynapseBase with remote = True invoked it exactly once
\* and set all five.
C14_RemoteOnly ==
    /\ entry = "forward_text" => ~remote
    /\ calls <= 1
    /\ ~remote => (calls = 0 /\ output.has \cap RemoteFields = {})
    /\ (bpc = "done" /\ remote /\ klass = "base") =>
            (calls = 1 /\ RemoteFields \subseteq output.has)

\* C14 witness: forward_text of a BertMLMSynapse has returned: the local
\* hidden layer is set, the dendrite was not invoked, no remote field is set.
C14_Witness ==
    /\ bpc = "done"
    /\ klass = "mlm"
    /\ entry = "forward_text"
    /\ ~remote
    /\ calls = 0
    /\ "local_hidden" \in output.has
    /\ output.has \cap RemoteFields = {}

\* The fields only a pass with targets sets.
TargetFields ==
    {"local_target", "local_target_loss", "remote_target", "remote_target_loss"}

\* C15: targets is optional.  forward of a BertNSPSynapse or BertMLMSynapse
\* never raises, whatever remote and targets are; when it has returned, no
\* target field is set if targets was None, and remote_hidden,
\* distillation_loss and weights are set if remote was True.
C15_TargetsOptional ==
    (klass \in {"nsp", "mlm"} /\ entry = "forward") =>
        /\ bpc # "raised"
        /\ bpc = "done" =>
            /\ ~targets => output.has \cap TargetFields = {}
            /\ remote => {"remote_hidden", "distillation_loss", "weights"}
                            \subseteq output.has

\* The round was given a node for every item and no peer gave a bad answer.
AllWellFormed ==
    /\ Len(nodes) >= Len(x)
    /\ \A k \in 1..Len(fate) : fate[k] = "ok"

\* The caller holds one result per item, in input order, each the decoded
\* payload of the request that carried x[i] to nodes[i], and exactly these
\* requests were sent, in index order.
InOrderResults ==
    /\ pc = "returned"
    /\ Len(results) = Len(x)
    /\ Len(sent) = Len(x)
    /\ \A i \in 1..Len(x) :
         /\ sent[i].idx = i - 1
         /\ sent[i].address = <<nodes[i].address, nodes[i].port>>
         /\ sent[i].target_id = nodes[i].identity
         /\ sent[i].tensors = << serialize(x[i]) >>
         /\ results[i] = Feature(sent[i])

\* C16: success path.  A round over x and at least as many nodes, in which
\* every peer answers well, ends by returning, not raising, with one result
\* per item in input order, after exactly Len(x) calls in index order.
C16_SuccessPath ==
    (RoundOver /\ AllWellFormed) => InOrderResults

\* C16, for the rounds that get past line 16 only.
C16_SuccessPathPastLine16 ==
    (RoundOver /\ AllWellFormed /\ raisedAt # "line16") => InOrderResults

====
